---- MODULE Spec2Model ----
(***************************************************************************)
(* Model of porcupine's find/replace widget (porcupine/plugins/find.py,    *)
(* class Finder) together with the part of the Tk text widget it drives:   *)
(* the buffer, the 'find_highlight' and 'sel' tags, and the 'insert' mark. *)
(*                                                                         *)
(* Conventions.  The buffer is one line of text, a sequence of characters; *)
(* character i of the sequence sits between the offsets i-1 and i, so the  *)
(* Tk index "1.k" is the offset k.  A tag is the set of the characters     *)
(* that carry it, as in Tk; a range <<s, e>> is half open and covers the   *)
(* characters s+1 .. e.  Tk's tag_ranges reports the maximal runs of       *)
(* tagged characters, so two highlights that touch or overlap read back as *)
(* one range.                                                              *)
(*                                                                         *)
(* The events are the ones the Finder handles: show, a write to the find   *)
(* entry, the two navigation handlers, the replace button and hide.  Calls *)
(* that change neither text, tags nor marks (focus_set, see, tag_lower,    *)
(* tag_config) are left out.  The handlers of the panel's own widgets run  *)
(* only while the panel is packed.                                         *)
(***************************************************************************)
EXTENDS Integers, Sequences, FiniteSets, TLC

VARIABLES
    buffer,      \* content of the text widget (without Tk's final newline)
    highlight,   \* characters tagged 'find_highlight'
    sel,         \* characters tagged 'sel'
    insert,      \* offset of the 'insert' mark (the cursor)
    looking4,    \* content of find_entry
    button,      \* _replace_this_button['state']
    status,      \* statuslabel['text']
    packed,      \* whether the Finder frame is packed (shown)
    lastOp,      \* the handler that ran last, with its outcome; "rebuild"
                 \* stands for highlight_all_matches, from show or the entry
    replaced,    \* where the replace that ran last, or that ran just before
                 \* the last rebuild, put its text, and that text
    edits,       \* number of edits the Finder has made to the buffer
    loop         \* the running highlight_all_matches call: its position
                 \* (pc) and its locals start_index and count; "idle"
                 \* while no call is being followed step by step

vars == <<buffer, highlight, sel, insert, looking4, button, status, packed,
          lastOp, replaced, edits, loop>>

----------------------------------------------------------------------------
(* Bounds of the model. *)

MaxLen == 2          \* longest initial buffer drawn from the alphabet
MaxPat == 1          \* longest search string drawn from the alphabet
MaxRepl == 0         \* longest replacement drawn from the alphabet
MaxEdits == 1        \* replacements made in one run

Alphabet == {"a", "b"}

\* All strings over S of length at most n
StringsUpTo(S, n) == UNION {[1..k -> S] : k \in 0..n}

\* The buffers, search strings and replacements of the documented scenarios
ScenarioBuffers ==
    { <<"a","b","c","a","b","c">>, <<"a","b","c"," ","a","b","c">>,
      <<"a","b","a","b","a","b">> }
ScenarioPatterns == { <<"a","b">>, <<"a","b","c">> }
ScenarioReplacements == { <<"x","y","z">> }

Buffers == StringsUpTo(Alphabet, MaxLen) \cup ScenarioBuffers
Patterns == StringsUpTo(Alphabet, MaxPat) \cup ScenarioPatterns
Replacements == StringsUpTo(Alphabet, MaxRepl) \cup ScenarioReplacements

----------------------------------------------------------------------------
(* The Tk text widget primitives the Finder uses. *)

NotFound == -1

\* pat occurs in buf at offset s
OccursAt(buf, pat, s) ==
    /\ s >= 0
    /\ s + Len(pat) <= Len(buf)
    /\ SubSeq(buf, s + 1, s + Len(pat)) = pat

\* textwidget.search(pat, from, 'end'): offset of the first occurrence that
\* starts at or after from, NotFound (Tk's empty string) when there is none
Search(buf, pat, from) ==
    LET hits == {s \in from..(Len(buf) - Len(pat)) : OccursAt(buf, pat, s)}
    IN IF hits = {} THEN NotFound
       ELSE CHOOSE s \in hits : \A t \in hits : s <= t

\* the characters of the range "s" .. "s + n chars", clipped to the text
CharsOf(buf, s, e) == {i \in (s + 1)..e : i <= Len(buf)}

\* textwidget.tag_ranges(tag): the maximal runs of tagged characters,
\* ascending, each as <<start, end>>
RECURSIVE RunsFrom(_, _, _)
RunsFrom(tag, i, n) ==
    IF i > n THEN <<>>
    ELSE IF i \notin tag THEN RunsFrom(tag, i + 1, n)
    ELSE LET e == CHOOSE j \in i..n :
                      /\ \A k \in i..j : k \in tag
                      /\ (j + 1) \notin tag
         IN <<(<<i - 1, e>>)>> \o RunsFrom(tag, e + 1, n)

TagRanges(tag, n) == RunsFrom(tag, 1, n)

SeqToSet(s) == {s[i] : i \in 1..Len(s)}

\* ReplaceText with the text inserted behind the old characters, which stay
ReplaceTextKeepsOld(buf, s, e, text) ==
    SubSeq(buf, 1, e) \o text \o SubSeq(buf, e + 1, Len(buf))

\* ReplaceText that also deletes everything behind the range
ReplaceTextToEnd(buf, s, e, text) ==
    SubSeq(buf, 1, s) \o text

\* textwidget.replace(s, e, text): delete the characters of <<s, e>> and
\* insert text at s
ReplaceText(buf, s, e, text) ==
    SubSeq(buf, 1, s) \o text \o SubSeq(buf, e + 1, Len(buf))

\* What replace does to a tag: the deleted characters lose it, the characters
\* behind them move, and the inserted characters get the tag only when the
\* characters on both sides of the insertion point carry it (Tk's insert
\* without a tag list)
ReplaceTag(tag, s, e, n) ==
    LET before == {i \in tag : i <= s}
        after == {i - (e - s) + n : i \in {j \in tag : j > e}}
        inherited == IF s \in tag /\ (e + 1) \in tag
                     THEN (s + 1)..(s + n) ELSE {}
    IN before \cup inherited \cup after

----------------------------------------------------------------------------
(* The Finder's methods. *)

\* GetMatchRanges with the pairs in the opposite order
GetMatchRangesReversed(buf, hl) ==
    LET pairs == TagRanges(hl, Len(buf))
    IN [i \in 1..Len(pairs) |-> pairs[Len(pairs) + 1 - i]]

\* Finder._get_match_ranges: the find_highlight ranges as (start, end) pairs
GetMatchRanges(buf, hl) == TagRanges(hl, Len(buf))

\* Finder._update_replace_button: the new state of the replace button.
\* Unpacking tag_ranges('sel') into start, end raises ValueError unless the
\* selection is exactly one range.
UpdateReplaceButton(buf, hl, selTag) ==
    LET selRanges == TagRanges(selTag, Len(buf))
    IN IF Len(selRanges) # 1 THEN "disabled"
       ELSE IF selRanges[1] \in SeqToSet(GetMatchRanges(buf, hl))
            THEN "enabled"
            ELSE "disabled"

\* SearchArg that searches again at the match just found
SearchArgAtMatch(start_index, count) == start_index

\* The search_arg of one iteration of the while loop: start_index itself
\* on the first iteration at the beginning of the file, one character
\* behind it otherwise
SearchArg(start_index, count) ==
    IF start_index = 0 /\ count = 0 THEN start_index ELSE start_index + 1

\* ScanLoop without the special case for the beginning of the file: every
\* search starts one character behind start_index
RECURSIVE ScanLoopAlwaysPlusOne(_, _, _, _, _)
ScanLoopAlwaysPlusOne(buf, pat, start_index, count, hl) ==
    LET found == Search(buf, pat, start_index + 1)
    IN IF found = NotFound
       THEN [highlight |-> hl, count |-> count]
       ELSE ScanLoopAlwaysPlusOne(buf, pat, found, count + 1,
                                  hl \cup CharsOf(buf, found, found + Len(pat)))

\* The while loop of Finder.highlight_all_matches, entered with the
\* start_index, the count and the characters highlighted so far
RECURSIVE ScanLoop(_, _, _, _, _)
ScanLoop(buf, pat, start_index, count, hl) ==
    LET search_arg == IF start_index = 0 /\ count = 0
                      THEN start_index
                      ELSE start_index + 1
        found == Search(buf, pat, search_arg)
    IN IF found = NotFound
       THEN [highlight |-> hl, count |-> count]
       ELSE ScanLoop(buf, pat, found, count + 1,
                     hl \cup CharsOf(buf, found, found + Len(pat)))

\* The count summary of Finder.highlight_all_matches
CountStatus(count) ==
    IF count = 0 THEN "Found no matches :("
    ELSE IF count = 1 THEN "Found 1 match."
    ELSE "Found " \o ToString(count) \o " matches."

\* HighlightAllMatches without the early return for the empty search string
HighlightAllMatchesSearchesEmpty(buf, pat, selTag, btn) ==
    LET scan == ScanLoop(buf, pat, 0, 0, {})
    IN [highlight |-> scan.highlight,
        button |-> UpdateReplaceButton(buf, scan.highlight, selTag),
        status |-> CountStatus(scan.count),
        count |-> scan.count]

\* Finder.highlight_all_matches: the new highlight, button state and status
HighlightAllMatches(buf, pat, selTag, btn) ==
    IF pat = <<>>
    THEN [highlight |-> {}, button |-> btn, status |-> "", count |-> 0]
    ELSE LET scan == ScanLoop(buf, pat, 0, 0, {})
         IN [highlight |-> scan.highlight,
             button |-> UpdateReplaceButton(buf, scan.highlight, selTag),
             status |-> CountStatus(scan.count),
             count |-> scan.count]

\* NextPair comparing with >= instead of >
NextPairAtOrAfter(pairs, ins) ==
    LET after == {i \in 1..Len(pairs) : pairs[i][1] >= ins}
    IN IF after = {} THEN pairs[1]
       ELSE pairs[CHOOSE i \in after : \A j \in after : i <= j]

\* NextPair that stops at the last pair instead of wrapping to the first
NextPairNoWrap(pairs, ins) ==
    LET after == {i \in 1..Len(pairs) : pairs[i][1] > ins}
    IN IF after = {} THEN pairs[Len(pairs)]
       ELSE pairs[CHOOSE i \in after : \A j \in after : i <= j]

\* The pair the for loop of Finder._go_to_next_match selects: the first pair
\* that starts after the cursor, else the first pair
NextPair(pairs, ins) ==
    LET after == {i \in 1..Len(pairs) : pairs[i][1] > ins}
    IN IF after = {} THEN pairs[1]
       ELSE pairs[CHOOSE i \in after : \A j \in after : i <= j]

\* PreviousPair that wraps to the first pair instead of the last
PreviousPairWrapsToFirst(pairs, ins) ==
    LET before == {i \in 1..Len(pairs) : pairs[i][1] < ins}
    IN IF before = {} THEN pairs[1]
       ELSE pairs[CHOOSE i \in before : \A j \in before : i >= j]

\* PreviousPair comparing with <= instead of <
PreviousPairAtOrBefore(pairs, ins) ==
    LET before == {i \in 1..Len(pairs) : pairs[i][1] <= ins}
    IN IF before = {} THEN pairs[Len(pairs)]
       ELSE pairs[CHOOSE i \in before : \A j \in before : i >= j]

\* The pair the for loop of Finder._go_to_previous_match selects: the last
\* pair that starts before the cursor, else the last pair
PreviousPair(pairs, ins) ==
    LET before == {i \in 1..Len(pairs) : pairs[i][1] < ins}
    IN IF before = {} THEN pairs[Len(pairs)]
       ELSE pairs[CHOOSE i \in before : \A j \in before : i >= j]

\* SelectRange that selects only the first character of the pair
SelectRangeOneChar(buf, hl, pair) ==
    LET newSel == CharsOf(buf, pair[1], pair[1] + 1)
    IN [sel |-> newSel, insert |-> pair[1], status |-> "",
        button |-> UpdateReplaceButton(buf, hl, newSel), found |-> TRUE]

\* Finder._select_range followed by the tail of the navigation handlers
SelectRange(buf, hl, pair) ==
    LET newSel == CharsOf(buf, pair[1], pair[2])
    IN [sel |-> newSel, insert |-> pair[1], status |-> "",
        button |-> UpdateReplaceButton(buf, hl, newSel), found |-> TRUE]

\* GoToNextMatch that drops the selection when there are no matches
GoToNextMatchClearsSelection(buf, hl, selTag, ins, btn) ==
    LET pairs == GetMatchRanges(buf, hl)
    IN IF pairs = <<>>
       THEN [sel |-> {}, insert |-> ins, status |-> "No matches found!",
             button |-> UpdateReplaceButton(buf, hl, {}), found |-> FALSE]
       ELSE SelectRange(buf, hl, NextPair(pairs, ins))

\* Finder._go_to_next_match
GoToNextMatch(buf, hl, selTag, ins, btn) ==
    LET pairs == GetMatchRanges(buf, hl)
    IN IF pairs = <<>>
       THEN [sel |-> selTag, insert |-> ins, status |-> "No matches found!",
             button |-> btn, found |-> FALSE]
       ELSE SelectRange(buf, hl, NextPair(pairs, ins))

\* Finder._go_to_previous_match
GoToPreviousMatch(buf, hl, selTag, ins, btn) ==
    LET pairs == GetMatchRanges(buf, hl)
    IN IF pairs = <<>>
       THEN [sel |-> selTag, insert |-> ins, status |-> "No matches found!",
             button |-> btn, found |-> FALSE]
       ELSE SelectRange(buf, hl, PreviousPair(pairs, ins))

\* ValidSelection that only checks that something is selected
ValidSelectionAnyRange(buf, hl, selTag) ==
    Len(TagRanges(selTag, Len(buf))) = 1

\* The check at the top of Finder._replace_this_match: the selection is one
\* range and that range is one of the match ranges
ValidSelection(buf, hl, selTag) ==
    LET selRanges == TagRanges(selTag, Len(buf))
    IN /\ Len(selRanges) = 1
       /\ selRanges[1] \in SeqToSet(GetMatchRanges(buf, hl))

\* ReplaceThisMatch with _update_replace_button called before the highlight
\* of the match is removed
ReplaceThisMatchUpdatesFirst(buf, hl, selTag, text) ==
    LET range == TagRanges(selTag, Len(buf))[1]
        start == range[1]
        end == range[2]
        btn1 == UpdateReplaceButton(buf, hl, selTag)
        hl1 == hl \ CharsOf(buf, start, end)
        buf2 == ReplaceText(buf, start, end, text)
        hl2 == ReplaceTag(hl1, start, end, Len(text))
        sel2 == ReplaceTag(selTag, start, end, Len(text))
        next == GoToNextMatch(buf2, hl2, sel2, start, btn1)
    IN [buffer |-> buf2, highlight |-> hl2, sel |-> next.sel,
        insert |-> next.insert, button |-> next.button,
        status |-> IF next.status = "No matches found!"
                   THEN "No more matches." ELSE next.status,
        replaced |-> [start |-> start, text |-> text]]

\* ReplaceThisMatch without the translation of "No matches found!"
ReplaceThisMatchKeepsStatus(buf, hl, selTag, text) ==
    LET range == TagRanges(selTag, Len(buf))[1]
        start == range[1]
        end == range[2]
        hl1 == hl \ CharsOf(buf, start, end)
        btn1 == UpdateReplaceButton(buf, hl1, selTag)
        buf2 == ReplaceText(buf, start, end, text)
        hl2 == ReplaceTag(hl1, start, end, Len(text))
        sel2 == ReplaceTag(selTag, start, end, Len(text))
        next == GoToNextMatch(buf2, hl2, sel2, start, btn1)
    IN [buffer |-> buf2, highlight |-> hl2, sel |-> next.sel,
        insert |-> next.insert, button |-> next.button,
        status |-> next.status,
        replaced |-> [start |-> start, text |-> text]]

\* The body of Finder._replace_this_match after the check
ReplaceThisMatch(buf, hl, selTag, text) ==
    LET range == TagRanges(selTag, Len(buf))[1]
        start == range[1]
        end == range[2]
        hl1 == hl \ CharsOf(buf, start, end)
        btn1 == UpdateReplaceButton(buf, hl1, selTag)
        buf2 == ReplaceText(buf, start, end, text)
        hl2 == ReplaceTag(hl1, start, end, Len(text))
        sel2 == ReplaceTag(selTag, start, end, Len(text))
        next == GoToNextMatch(buf2, hl2, sel2, start, btn1)
    IN [buffer |-> buf2, highlight |-> hl2, sel |-> next.sel,
        insert |-> next.insert, button |-> next.button,
        status |-> IF next.status = "No matches found!"
                   THEN "No more matches." ELSE next.status,
        replaced |-> [start |-> start, text |-> text]]

----------------------------------------------------------------------------
(* The state machine: one action per event the Finder handles. *)

\* value of replaced when no replace is being remembered
NoRange == <<>>

\* value of loop while no highlight_all_matches call is followed
LoopIdle == [pc |-> "idle", start_index |-> 0, count |-> 0]

\* After Finder.__init__, before find() shows the widget: the entry is empty,
\* the button is disabled, nothing is highlighted or selected
Init ==
    /\ buffer \in Buffers
    /\ insert \in 0..Len(buffer)
    /\ highlight = {}
    /\ sel = {}
    /\ looking4 = <<>>
    /\ button = "disabled"
    /\ status = ""
    /\ packed = FALSE
    /\ lastOp = "init"
    /\ replaced = NoRange
    /\ edits = 0
    /\ loop = LoopIdle

\* Finder.show
Show ==
    LET r == HighlightAllMatches(buffer, looking4, sel, button)
    IN /\ packed' = TRUE
       /\ highlight' = r.highlight
       /\ button' = r.button
       /\ status' = r.status
       /\ lastOp' = "rebuild"
       /\ UNCHANGED <<buffer, sel, insert, looking4, replaced, edits, loop>>

\* A write to the find entry's variable, which runs highlight_all_matches
SearchStringChanged(pat) ==
    LET r == HighlightAllMatches(buffer, pat, sel, button)
    IN /\ packed
       /\ looking4' = pat
       /\ highlight' = r.highlight
       /\ button' = r.button
       /\ status' = r.status
       /\ lastOp' = "rebuild"
       /\ replaced' = IF pat = looking4 THEN replaced ELSE NoRange
       /\ UNCHANGED <<buffer, sel, insert, packed, edits, loop>>

\* Finder.hide
Hide ==
    /\ packed
    /\ highlight' = {}
    /\ packed' = FALSE
    /\ lastOp' = "hide"
    /\ replaced' = NoRange
    /\ UNCHANGED <<buffer, sel, insert, looking4, button, status, edits, loop>>

\* Finder._go_to_next_match, from the Return key or the button
NextMatch ==
    LET r == GoToNextMatch(buffer, highlight, sel, insert, button)
    IN /\ packed
       /\ sel' = r.sel
       /\ insert' = r.insert
       /\ status' = r.status
       /\ button' = r.button
       /\ lastOp' = IF r.found THEN "next_match" ELSE "next_match_none"
       /\ replaced' = NoRange
       /\ UNCHANGED <<buffer, highlight, looking4, packed, edits, loop>>

\* Finder._go_to_previous_match, from Shift-Return or the button
PreviousMatch ==
    LET r == GoToPreviousMatch(buffer, highlight, sel, insert, button)
    IN /\ packed
       /\ sel' = r.sel
       /\ insert' = r.insert
       /\ status' = r.status
       /\ button' = r.button
       /\ lastOp' = IF r.found THEN "previous_match" ELSE "previous_match_none"
       /\ replaced' = NoRange
       /\ UNCHANGED <<buffer, highlight, looking4, packed, edits, loop>>

\* Finder._replace_this_match when the check fails
ReplaceInvalid ==
    /\ packed
    /\ ~ValidSelection(buffer, highlight, sel)
    /\ status' = "Click \"Previous match\" or \"Next match\" first."
    /\ lastOp' = "replace_invalid"
    /\ replaced' = NoRange
    /\ UNCHANGED <<buffer, highlight, sel, insert, looking4, button, packed, edits, loop>>

\* Finder._replace_this_match when the check passes, with text in the
\* replace entry: one of the Replacements, or the search string itself
ReplaceValid(text) ==
    /\ packed
    /\ ValidSelection(buffer, highlight, sel)
    /\ edits < MaxEdits
    /\ edits' = edits + 1
    /\ LET r == ReplaceThisMatch(buffer, highlight, sel, text)
       IN /\ buffer' = r.buffer
          /\ highlight' = r.highlight
          /\ sel' = r.sel
          /\ insert' = r.insert
          /\ button' = r.button
          /\ status' = r.status
          /\ replaced' = r.replaced
    /\ lastOp' = "replace_ok"
    /\ UNCHANGED <<looking4, packed, loop>>

Next ==
    \/ Show
    \/ \E pat \in Patterns : SearchStringChanged(pat)
    \/ Hide
    \/ NextMatch
    \/ PreviousMatch
    \/ ReplaceInvalid
    \/ \E text \in Replacements \cup {looking4} : ReplaceValid(text)

Spec == Init /\ [][Next]_vars

----------------------------------------------------------------------------
(* One call of highlight_all_matches followed statement by statement: the  *)
(* while loop runs one iteration per step.  The call is sequential code    *)
(* inside one Tk callback, so a step that can be taken is taken.           *)

\* The text and the search string of the FIXME at the top of find.py
FixmeBuffer == <<"a","s","a","s","a","s","a","s","a">>
FixmePatterns == { <<"a","s">>, <<"a","s","a">> }

ScanBuffers == Buffers \cup {FixmeBuffer}
ScanPatterns == Patterns \cup FixmePatterns

\* highlight_all_matches is entered: any text, any search string, with or
\* without highlights left by an earlier call
ScanInit ==
    /\ buffer \in ScanBuffers
    /\ looking4 \in ScanPatterns
    /\ highlight \in {{}, 1..Len(buffer)}
    /\ insert = 0
    /\ sel = {}
    /\ button = "disabled"
    /\ status = ""
    /\ packed = TRUE
    /\ lastOp = "init"
    /\ replaced = NoRange
    /\ edits = 0
    /\ loop = [pc |-> "start", start_index |-> 0, count |-> 0]

\* tag_remove, the early return for the empty search string, and the
\* initialisation of count and start_index
ScanBegin ==
    /\ loop.pc = "start"
    /\ highlight' = {}
    /\ IF looking4 = <<>>
       THEN /\ status' = ""
            /\ lastOp' = "rebuild"
            /\ loop' = [loop EXCEPT !.pc = "done"]
       ELSE /\ loop' = [pc |-> "loop", start_index |-> 0, count |-> 0]
            /\ UNCHANGED <<status, lastOp>>
    /\ UNCHANGED <<buffer, sel, insert, looking4, button, packed, replaced,
                   edits>>

\* One iteration of the while loop in which search finds an occurrence
ScanFound ==
    LET found == Search(buffer, looking4,
                        SearchArg(loop.start_index, loop.count))
    IN /\ loop.pc = "loop"
       /\ found # NotFound
       /\ highlight' = highlight
                          \cup CharsOf(buffer, found, found + Len(looking4))
       /\ loop' = [loop EXCEPT !.start_index = found, !.count = @ + 1]
       /\ UNCHANGED <<buffer, sel, insert, looking4, button, status, packed,
                      lastOp, replaced, edits>>

\* The iteration in which search finds nothing: break
ScanNotFound ==
    /\ loop.pc = "loop"
    /\ Search(buffer, looking4,
              SearchArg(loop.start_index, loop.count)) = NotFound
    /\ loop' = [loop EXCEPT !.pc = "update"]
    /\ UNCHANGED <<buffer, highlight, sel, insert, looking4, button, status,
                   packed, lastOp, replaced, edits>>

\* After the loop: _update_replace_button and the count summary
ScanFinish ==
    /\ loop.pc = "update"
    /\ button' = UpdateReplaceButton(buffer, highlight, sel)
    /\ status' = CountStatus(loop.count)
    /\ lastOp' = "rebuild"
    /\ loop' = [loop EXCEPT !.pc = "done"]
    /\ UNCHANGED <<buffer, highlight, sel, insert, looking4, packed, replaced,
                   edits>>

ScanNext ==
    \/ ScanBegin
    \/ ScanFound
    \/ ScanNotFound
    \/ ScanFinish

SpecScan == ScanInit /\ [][ScanNext]_vars /\ WF_vars(ScanNext)

TypeOK ==
    /\ highlight \subseteq 1..Len(buffer)
    /\ sel \subseteq 1..Len(buffer)
    /\ insert \in 0..Len(buffer)
    /\ button \in {"enabled", "disabled"}
    /\ packed \in BOOLEAN

----------------------------------------------------------------------------
(* Vocabulary of the properties, stated on the tags themselves and not     *)
(* through the Finder's methods.                                           *)

\* <<s, e>> is one Match of the Match Set: a maximal run of highlighted
\* characters
IsMatch(s, e) ==
    /\ 0 <= s /\ s < e /\ e <= Len(buffer)
    /\ \A i \in (s + 1)..e : i \in highlight
    /\ s \notin highlight
    /\ (e + 1) \notin highlight

\* The Match Set
Matches ==
    {r \in {<<i - 1, j>> : i \in highlight, j \in highlight} : IsMatch(r[1], r[2])}

\* The Selection is exactly the range <<s, e>>
SelectionIs(s, e) == s < e /\ sel = (s + 1)..e

\* The Selection exactly equals one Match of the Match Set
SelectionIsMatch == \E r \in Matches : SelectionIs(r[1], r[2])

\* The characters covered by some occurrence of pat in buf
Covered(buf, pat) ==
    IF pat = <<>> THEN {}
    ELSE {i \in 1..Len(buf) :
            \E s \in 0..Len(buf) :
                OccursAt(buf, pat, s) /\ s < i /\ i <= s + Len(pat)}

\* pat occurs somewhere in text
Contains(text, pat) == \E s \in 0..Len(text) : OccursAt(text, pat, s)

ReplaceOps == {"replace_ok", "replace_invalid"}
InvalidSelectionStatus == "Click \"Previous match\" or \"Next match\" first."

----------------------------------------------------------------------------
(* C1: in every reachable state the replace button is enabled if and only  *)
(* if the Selection exactly equals one Match of the Match Set.  The code   *)
(* breaks this: hide and a rebuild with an empty search string remove the  *)
(* highlights without calling _update_replace_button.                      *)
C1_ReplaceEnabledIffSelectionIsMatch ==
    (button = "enabled") <=> SelectionIsMatch

(* C2: a replace_current called when the Selection is absent or is not one *)
(* Match of the Match Set only sets the status to the "click previous/next *)
(* match first" message: buffer, Match Set, Selection and cursor stay.     *)
C2_InvalidReplaceChangesOnlyStatus ==
    [][(lastOp' \in ReplaceOps /\ ~SelectionIsMatch)
        => /\ status' = InvalidSelectionStatus
           /\ buffer' = buffer
           /\ highlight' = highlight
           /\ sel' = sel
           /\ insert' = insert]_vars

\* a failed replace has run with a Selection present and Matches present
C2_Witness ==
    /\ lastOp = "replace_invalid"
    /\ status = InvalidSelectionStatus
    /\ sel # {}
    /\ highlight # {}

(* C3: a successful replace_current replaces exactly one occurrence of the *)
(* search string, a range as long as the search string, by the replacement *)
(* and leaves the rest of the buffer alone.  The code breaks this when     *)
(* occurrences touch: their highlights read back as one range, which is    *)
(* what gets selected and replaced.                                        *)
C3_ReplaceChangesOneOccurrence ==
    [][lastOp' = "replace_ok"
        => \E s \in 0..Len(buffer) :
              LET e == s + Len(looking4)
                  n == Len(buffer') - Len(buffer) + Len(looking4)
              IN /\ SelectionIs(s, e)
                 /\ OccursAt(buffer, looking4, s)
                 /\ SubSeq(buffer', 1, s) = SubSeq(buffer, 1, s)
                 /\ SubSeq(buffer', s + n + 1, Len(buffer'))
                        = SubSeq(buffer, e + 1, Len(buffer))]_vars

(* C4: after a rebuild with a non-empty search string no two Matches       *)
(* overlap and every Match is as long as the search string.  The code      *)
(* breaks the length part when occurrences touch or overlap.               *)
C4_MatchesDisjointAndOfPatternLength ==
    (lastOp = "rebuild" /\ looking4 # <<>>)
        => /\ \A r \in Matches : r[2] - r[1] = Len(looking4)
           /\ \A r1, r2 \in Matches :
                 r1 # r2 => (r1[2] <= r2[1] \/ r2[2] <= r1[1])

(* C5: after a rebuild with a non-empty search string the count in the     *)
(* status summary is the number of Matches in the Match Set.  The code     *)
(* counts the occurrences it found, while touching occurrences read back   *)
(* as one Match.                                                           *)
C5_StatusCountsTheMatches ==
    (lastOp = "rebuild" /\ looking4 # <<>>)
        => LET n == Cardinality(Matches)
           IN status = IF n = 0 THEN "Found no matches :("
                       ELSE IF n = 1 THEN "Found 1 match."
                       ELSE "Found " \o ToString(n) \o " matches."

(* C6, as stated: after every search-string change and after the edit of a *)
(* successful replace_current, the Match Set is what a rebuild produces    *)
(* for the current buffer and search string.  The code runs no rebuild     *)
(* after its edit; this shows already when the replaced range is a single  *)
(* occurrence of the search string, which is the case stated here.         *)
C6_MatchSetAlwaysFresh ==
    [][/\ lastOp' = "rebuild" => highlight' = Covered(buffer', looking4')
       /\ (lastOp' = "replace_ok" /\ Cardinality(sel) = Len(looking4))
            => highlight' = Covered(buffer', looking4')]_vars

(* C6, amended: the Match Set is recomputed from scratch when the search   *)
(* string changes or the panel is shown, and right after that it covers    *)
(* exactly the occurrences of the search string in the buffer; a           *)
(* successful replace_current does not recompute it: it takes the replaced *)
(* range out and keeps the other Matches, moved with their text.           *)
C6_FreshAfterRebuildOnly ==
    [][/\ lastOp' = "rebuild" => highlight' = Covered(buffer', looking4')
       /\ lastOp' = "replace_ok"
            => LET delta == Len(buffer') - Len(buffer)
                   end == CHOOSE e \in 0..Len(buffer) :
                              \A i \in sel : i <= e
               IN highlight' = {IF i > end THEN i + delta ELSE i :
                                    i \in highlight \ sel}]_vars

\* a successful replace has left a Match Set that a rebuild would not give
C6_Witness ==
    /\ lastOp = "replace_ok"
    /\ highlight # {}
    /\ highlight # Covered(buffer, looking4)

(* C7: next_match with a non-empty Match Set selects the first Match whose *)
(* start lies strictly after the cursor and, when there is none, the first *)
(* Match of the set; the cursor moves to the start of the selected Match.  *)
C7_NextSelectsFirstAfterCursor ==
    [][(lastOp' \in {"next_match", "next_match_none"} /\ Matches # {})
        => LET after == {r \in Matches : r[1] > insert}
               from == IF after = {} THEN Matches ELSE after
               m == CHOOSE r \in from : \A q \in from : r[1] <= q[1]
           IN /\ sel' = (m[1] + 1)..m[2]
              /\ insert' = m[1]]_vars

\* "abc abc" searched for "abc": the second call has wrapped from (4,7)
\* to (0,3)
C7_Witness ==
    /\ lastOp = "next_match"
    /\ buffer = <<"a", "b", "c", " ", "a", "b", "c">>
    /\ looking4 = <<"a", "b", "c">>
    /\ Matches = {<<0, 3>>, <<4, 7>>}
    /\ SelectionIs(0, 3)
    /\ insert = 0

(* C8: previous_match with a non-empty Match Set selects the last Match    *)
(* whose start lies strictly before the cursor and, when there is none,    *)
(* the last Match of the set.                                              *)
C8_PreviousSelectsLastBeforeCursor ==
    [][(lastOp' \in {"previous_match", "previous_match_none"} /\ Matches # {})
        => LET before == {r \in Matches : r[1] < insert}
               from == IF before = {} THEN Matches ELSE before
               m == CHOOSE r \in from : \A q \in from : r[1] >= q[1]
           IN /\ sel' = (m[1] + 1)..m[2]
              /\ insert' = m[1]]_vars

\* previous_match has wrapped from the first Match to the last of several
C8_Witness ==
    /\ lastOp = "previous_match"
    /\ Cardinality(Matches) > 1
    /\ SelectionIsMatch
    /\ \A r \in Matches : r[1] <= insert

(* C9: with more than one Match, the cursor at the start of the selected   *)
(* Match m and the Match Set unchanged, next_match followed by             *)
(* previous_match selects m again, and so does previous_match followed by  *)
(* next_match; in between, another Match than m is selected.               *)
C9_NextAndPreviousAreInverse ==
    (/\ Cardinality(Matches) > 1
     /\ SelectionIsMatch
     /\ \E r \in Matches : SelectionIs(r[1], r[2]) /\ insert = r[1])
        => LET n == GoToNextMatch(buffer, highlight, sel, insert, button)
               np == GoToPreviousMatch(buffer, highlight, n.sel, n.insert, n.button)
               p == GoToPreviousMatch(buffer, highlight, sel, insert, button)
               pn == GoToNextMatch(buffer, highlight, p.sel, p.insert, p.button)
           IN /\ np.sel = sel /\ np.insert = insert
              /\ pn.sel = sel /\ pn.insert = insert
              /\ n.sel # sel /\ p.sel # sel

\* navigation has selected the last of several Matches, so that next_match
\* wraps around
C9_Witness ==
    /\ lastOp \in {"next_match", "previous_match"}
    /\ Cardinality(Matches) > 1
    /\ \E r \in Matches : SelectionIs(r[1], r[2]) /\ insert = r[1]
    /\ \A r \in Matches : r[1] <= insert

(* C10: when the replacement does not contain the search string, a rebuild *)
(* with the same search string right after a successful replace_current    *)
(* does not report the range now holding the replacement as a Match.       *)
C10_ReplacedRangeIsNoMatch ==
    (/\ lastOp = "rebuild"
     /\ replaced # NoRange
     /\ looking4 # <<>>
     /\ ~Contains(replaced.text, looking4))
        => <<replaced.start, replaced.start + Len(replaced.text)>> \notin Matches

\* a rebuild has run right after a replace by a non-empty text and has found
\* Matches
C10_Witness ==
    /\ lastOp = "rebuild"
    /\ replaced # NoRange
    /\ looking4 # <<>>
    /\ replaced.text # <<>>
    /\ ~Contains(replaced.text, looking4)
    /\ highlight # {}

(* C11: a successful replace_current clears the highlight of the selected  *)
(* match, recomputes the button state, mutates the buffer and then         *)
(* advances, in this order.  The handler is one event, so the order shows  *)
(* in the state it leaves, also when the replacement is the search string  *)
(* itself: no character of the replacement is highlighted, so the replaced *)
(* range is not in the Match Set; the advance has run on the mutated       *)
(* buffer, from the start of the replaced range; and the button is enabled *)
(* exactly when the advance selected a remaining Match, disabled with      *)
(* nothing selected when none remains.                                     *)
C11_ReplaceStepsInOrder ==
    [][lastOp' = "replace_ok"
        => LET s == CHOOSE i \in 0..Len(buffer) :
                        (i + 1) \in sel /\ \A j \in sel : i < j
               text == replaced'.text
               after == {r \in Matches' : r[1] > s}
               from == IF after = {} THEN Matches' ELSE after
           IN /\ replaced'.start = s
              /\ \A i \in (s + 1)..(s + Len(text)) : i \notin highlight'
              /\ <<s, s + Len(text)>> \notin Matches'
              /\ SubSeq(buffer', s + 1, s + Len(text)) = text
              /\ IF Matches' = {}
                 THEN sel' = {} /\ insert' = s /\ button' = "disabled"
                 ELSE /\ button' = "enabled"
                      /\ SelectionIsMatch'
                      /\ \E m \in from :
                            /\ \A q \in from : m[1] <= q[1]
                            /\ sel' = (m[1] + 1)..m[2]
                            /\ insert' = m[1]]_vars

\* a match has been replaced by the search string itself and the advance
\* has selected a remaining Match
C11_Witness ==
    /\ lastOp = "replace_ok"
    /\ looking4 # <<>>
    /\ replaced.text = looking4
    /\ button = "enabled"
    /\ SelectionIsMatch

(* C12: a rebuild with an empty search string leaves an empty Match Set,   *)
(* whatever the buffer and the Match Set before, and shows no count        *)
(* summary.                                                                *)
C12_EmptySearchStringClearsMatches ==
    [][(lastOp' = "rebuild" /\ looking4' = <<>>)
        => /\ highlight' = {}
           /\ Matches' = {}
           /\ status' = ""
           /\ buffer' = buffer]_vars

\* the search string was emptied over a non-empty buffer in which a Match
\* had been selected before
C12_Witness ==
    /\ lastOp = "rebuild"
    /\ looking4 = <<>>
    /\ packed
    /\ buffer # <<>>
    /\ sel # {}
    /\ highlight = {}

(* C13: after a rebuild with a non-empty search string the Match Set, as   *)
(* _get_match_ranges reads it back, is sorted ascending by start position  *)
(* and holds no two Matches with the same start.                           *)
C13_MatchSetSortedByStart ==
    (lastOp = "rebuild" /\ looking4 # <<>>)
        => LET pairs == GetMatchRanges(buffer, highlight)
           IN /\ \A i, j \in 1..Len(pairs) : i < j => pairs[i][1] < pairs[j][1]
              /\ SeqToSet(pairs) = Matches

\* a rebuild has found several Matches
C13_Witness ==
    /\ lastOp = "rebuild"
    /\ looking4 # <<>>
    /\ Len(GetMatchRanges(buffer, highlight)) >= 3

(* C14: the scan loop of a rebuild terminates for every buffer and every   *)
(* non-empty search string, because the position each search starts from   *)
(* strictly increases from one iteration to the next; the highlight it     *)
(* ends with is the one highlight_all_matches computes.                    *)
C14_ScanLoopTerminates ==
    /\ (loop.pc = "loop") ~> (loop.pc = "done")
    /\ [][(loop.pc = "loop" /\ loop'.pc = "loop")
            => SearchArg(loop'.start_index, loop'.count)
                 > SearchArg(loop.start_index, loop.count)]_vars
    /\ [](loop.pc = "done"
            => LET r == HighlightAllMatches(buffer, looking4, sel, "disabled")
               IN highlight = r.highlight /\ status = r.status
                                          /\ loop.count = r.count)

\* a scan has ended on a self-overlapping search string that matches at
\* position 0 and at the very end of the buffer
C14_Witness ==
    /\ loop.pc = "done"
    /\ looking4 # <<>>
    /\ loop.count >= 3
    /\ OccursAt(buffer, looking4, 0)
    /\ OccursAt(buffer, looking4, Len(buffer) - Len(looking4))
    /\ loop.count * Len(looking4) > Len(buffer)

\* the outcomes of the two navigation handlers
NavOps ==
    {"next_match", "next_match_none", "previous_match", "previous_match_none"}

\* the start and the end of the selected range
SelStart == CHOOSE i \in 0..Len(buffer) : (i + 1) \in sel /\ \A j \in sel : i < j
SelEnd == CHOOSE i \in sel : \A j \in sel : j <= i

(* C15: next_match or previous_match called while the Match Set is empty   *)
(* sets the status to "No matches found!" and changes nothing else: the    *)
(* buffer, the Match Set, the Selection, the cursor and the replace button *)
(* are as before the call.                                                 *)
C15_NavigationWithoutMatchesOnlySignals ==
    [][(lastOp' \in NavOps /\ Matches = {})
        => /\ lastOp' \in {"next_match_none", "previous_match_none"}
           /\ status' = "No matches found!"
           /\ buffer' = buffer
           /\ highlight' = highlight
           /\ Matches' = {}
           /\ sel' = sel
           /\ insert' = insert
           /\ button' = button]_vars

\* next_match found no Match while text was still selected
C15_Witness ==
    /\ lastOp = "next_match_none"
    /\ status = "No matches found!"
    /\ sel # {}
    /\ insert > 0

(* C16: the buffer is changed only by a successful replace_current, which  *)
(* makes exactly one edit, the replacement of the selected range by the    *)
(* replace text; every other handler, a failed replace_current included,   *)
(* leaves the buffer as it is.                                             *)
C16_OnlyReplaceEditsTheBuffer ==
    [][/\ (lastOp' # "replace_ok") => (buffer' = buffer /\ edits' = edits)
       /\ (lastOp' = "replace_ok")
            => /\ edits' = edits + 1
               /\ sel # {}
               /\ buffer' = SubSeq(buffer, 1, SelStart) \o replaced'.text
                              \o SubSeq(buffer, SelEnd + 1, Len(buffer))]_vars

\* one edit has put the replacement between text that was kept
C16_Witness ==
    /\ lastOp = "replace_ok"
    /\ edits = 1
    /\ replaced.text = <<"x", "y", "z">>
    /\ replaced.start > 0
    /\ Len(buffer) > replaced.start + 3

(* C17: after a successful replace_current the status is "No more          *)
(* matches." exactly when no Match is left once the replaced highlight is  *)
(* gone, and empty otherwise; "No matches found!" is never left showing.   *)
C17_StatusAfterReplace ==
    lastOp = "replace_ok"
        => /\ status = IF Matches = {} THEN "No more matches." ELSE ""
           /\ status # "No matches found!"

\* the last Match has been replaced
C17_Witness ==
    /\ lastOp = "replace_ok"
    /\ status = "No more matches."
    /\ highlight = {}
    /\ buffer # <<>>

(* C18: right after next_match or previous_match with a non-empty Match    *)
(* Set the Selection is one Match and the cursor is at its start, so the   *)
(* check of replace_current passes if it runs next.                        *)
C18_NavigationLeavesValidSelection ==
    [][(lastOp' \in NavOps /\ Matches # {})
        => /\ lastOp' \in {"next_match", "previous_match"}
           /\ SelectionIsMatch'
           /\ \E r \in Matches' : sel' = (r[1] + 1)..r[2] /\ insert' = r[1]
           /\ ValidSelection(buffer', highlight', sel')]_vars

\* a navigation has selected a Match longer than one character
C18_Witness ==
    /\ lastOp \in {"next_match", "previous_match"}
    /\ SelectionIsMatch
    /\ Cardinality(sel) >= 2
    /\ insert = SelStart
    /\ ValidSelection(buffer, highlight, sel)

\* the cursor positions after each of k consecutive next_match calls made
\* with the highlight of the current state, from selection selTag and
\* cursor ins
RECURSIVE NextRun(_, _, _)
NextRun(k, selTag, ins) ==
    IF k = 0 THEN <<>>
    ELSE LET r == GoToNextMatch(buffer, highlight, selTag, ins, button)
         IN <<[start |-> r.insert, sel |-> r.sel]>>
              \o NextRun(k - 1, r.sel, r.insert)

\* the same for previous_match
RECURSIVE PreviousRun(_, _, _)
PreviousRun(k, selTag, ins) ==
    IF k = 0 THEN <<>>
    ELSE LET r == GoToPreviousMatch(buffer, highlight, selTag, ins, button)
         IN <<[start |-> r.insert, sel |-> r.sel]>>
              \o PreviousRun(k - 1, r.sel, r.insert)

\* run visits every Match of the current Match Set exactly once
VisitsEveryMatchOnce(run) ==
    /\ Len(run) = Cardinality(Matches)
    /\ \A i, j \in 1..Len(run) : i # j => run[i].start # run[j].start
    /\ \A r \in Matches :
          \E i \in 1..Len(run) :
              run[i].start = r[1] /\ run[i].sel = (r[1] + 1)..r[2]

(* C19: from any state with n >= 1 Matches, n consecutive next_match calls *)
(* with nothing in between select every Match exactly once, each call the  *)
(* next Match in ascending order and the first Match after the last one;   *)
(* n consecutive previous_match calls do the same in descending order.     *)
C19_NavigationVisitsEveryMatch ==
    Matches # {}
        => LET n == Cardinality(Matches)
               first == CHOOSE r \in Matches : \A q \in Matches : r[1] <= q[1]
               last == CHOOSE r \in Matches : \A q \in Matches : r[1] >= q[1]
               fwd == NextRun(n, sel, insert)
               back == PreviousRun(n, sel, insert)
           IN /\ VisitsEveryMatchOnce(fwd)
              /\ VisitsEveryMatchOnce(back)
              /\ \A i \in 1..(n - 1) :
                    /\ IF fwd[i].start = last[1]
                       THEN fwd[i + 1].start = first[1]
                       ELSE /\ fwd[i + 1].start > fwd[i].start
                            /\ ~\E r \in Matches :
                                  /\ fwd[i].start < r[1]
                                  /\ r[1] < fwd[i + 1].start
                    /\ IF back[i].start = first[1]
                       THEN back[i + 1].start = last[1]
                       ELSE /\ back[i + 1].start < back[i].start
                            /\ ~\E r \in Matches :
                                  /\ back[i + 1].start < r[1]
                                  /\ r[1] < back[i].start

\* a navigation has wrapped around in a Match Set of three Matches
C19_Witness ==
    /\ lastOp \in {"next_match", "previous_match"}
    /\ Cardinality(Matches) >= 3
    /\ SelectionIsMatch
    /\ \/ lastOp = "next_match" /\ \A r \in Matches : insert <= r[1]
       \/ lastOp = "previous_match" /\ \A r \in Matches : insert >= r[1]

====
